---- MODULE Spec2Model ----
(***************************************************************************)
(* Session manager of the julia VS Code extension (src/src/extension.ts):  *)
(* activate, configChanged, setLanguageClient and the async function       *)
(* startLanguageServer with its onReady continuation and the two status    *)
(* notification handlers.  One action is one event-loop turn: the code     *)
(* that runs between two suspension points of the single-threaded host.    *)
(***************************************************************************)
EXTENDS Integers, Sequences, FiniteSets, TLC

\* ---- bounds of the model ------------------------------------------------
MaxAttempts == 3        \* calls of startLanguageServer explored
MaxConfigChanges == 2   \* onDidChangeConfiguration events explored
MaxLaunches == 2        \* calls explored when the launch specification is derived

\* ---- values -------------------------------------------------------------
ExePaths == {"julia-a", "julia-b"}          \* settings.juliaExePath values
OtherValues == {"lint-on", "lint-off"}      \* any other settings field
Settings == [juliaExePath : ExePaths, other : OtherValues]
\* the snapshot settings.loadSettings() returns in activate: the model is
\* symmetric in the paths and in the other values, so one snapshot stands for all
ActivationSettings == {[juliaExePath |-> "julia-a", other |-> "lint-on"]}
NoSettings == [juliaExePath |-> "null", other |-> "null"]
Kinds == {"busy", "ready"}                  \* the two notification types
NullClient == 0                             \* g_languageClient = null
PkgDirs == {"/pkg/v0.6", "/pkg/v0.7"}       \* results of packagepath.getPkgPath()
Undefined == "undefined"                    \* an environment variable that is not set
HomeValues == {Undefined, "", "/home/user"} \* process.env.HOME
Pids == {7, 4242}                           \* process.pid
OsHomedir == "/home/os"                     \* os.homedir()

VARIABLES
    activated,          \* activate() has run
    torndown,           \* context.subscriptions has been disposed
    g_settings,         \* module variable g_settings
    loaded,             \* snapshot returned by the latest settings.loadSettings()
    featSettings,       \* snapshot last handed to the feature modules
    nConfig,            \* configuration-change events handled so far
    g_languageClient,   \* module variable g_languageClient (0 = null)
    broadcasts,         \* arguments of the onNewLanguageClient calls, in order
    status,             \* g_serverstatus: "none", "busy" (shown), "ready" (hidden)
    client,             \* every LanguageClient constructed, by identity
    att,                \* every call of startLanguageServer
    lastFrame,          \* the frame handled last: its client and kind
    host,               \* the host process: process.env.HOME and process.pid
    calls               \* launch specifications: the locals of each call of
                        \* startLanguageServer, lines 131 to 152

mainVars == <<activated, torndown, g_settings, loaded, featSettings, nConfig,
              g_languageClient, broadcasts, status, client, att, lastFrame>>
launchVars == <<host, calls>>
vars == <<mainVars, launchVars>>

Clients == DOMAIN client
Attempts == DOMAIN att

\* ---- helpers ------------------------------------------------------------
\* the session reference the feature modules hold: the last broadcast
FeatClient == IF broadcasts = <<>> THEN NullClient ELSE broadcasts[Len(broadcasts)]

\* a fresh call frame of startLanguageServer, suspended at the first await;
\* stopped is the handle the calling configChanged stopped (0 if none)
NewAttempt(stopped) ==
    [pc |-> "awaitPkg", pkg |-> "pending", exe |-> "none", client |-> NullClient,
     errors |-> 0, stopped |-> stopped]

\* new LanguageClient(...): a handle whose start() has returned (state
\* "running") or thrown (state "startFailed")
NewClient(state, cont) ==
    [state |-> state, cont |-> cont, busyReg |-> 0, readyReg |-> 0]

\* ---- operations ---------------------------------------------------------
Init ==
    /\ activated = FALSE
    /\ torndown = FALSE
    /\ g_settings = NoSettings
    /\ loaded = NoSettings
    /\ featSettings = NoSettings
    /\ nConfig = 0
    /\ g_languageClient = NullClient
    /\ broadcasts = <<>>
    /\ status = "none"
    /\ client = <<>>
    /\ att = <<>>
    /\ lastFrame = [client |-> NullClient, kind |-> "none"]
    /\ host = [home |-> "/home/user", pid |-> 7]
    /\ calls = <<>>

\* setLanguageClient that stores the handle and tells no feature module
SetLanguageClientSilent(languageClient) ==
    /\ g_languageClient' = languageClient
    /\ broadcasts' = broadcasts

\* setLanguageClient(languageClient): store it and tell every feature module
SetLanguageClient(languageClient) ==
    /\ g_languageClient' = languageClient
    /\ broadcasts' = Append(broadcasts, languageClient)

\* the synchronous head of startLanguageServer(): runs to the first await
StartLanguageServer(stopped) ==
    att' = Append(att, NewAttempt(stopped))

\* activate that never calls g_serverstatus.show(): the item stays hidden
ActivateHidden ==
    /\ ~activated
    /\ \E s \in ActivationSettings :
        /\ g_settings' = s
        /\ loaded' = s
        /\ featSettings' = s
    /\ activated' = TRUE
    /\ status' = "ready"
    /\ StartLanguageServer(NullClient)
    /\ UNCHANGED <<torndown, nConfig, g_languageClient, broadcasts, client, lastFrame>>
    /\ UNCHANGED launchVars

\* activate(context): load the settings, show the status item as busy, hand
\* the settings to the feature modules and start the language server
Activate ==
    /\ ~activated
    /\ \E s \in ActivationSettings :
        /\ g_settings' = s
        /\ loaded' = s
        /\ featSettings' = s
    /\ activated' = TRUE
    /\ status' = "busy"
    /\ StartLanguageServer(NullClient)
    /\ UNCHANGED <<torndown, nConfig, g_languageClient, broadcasts, client, lastFrame>>
    /\ UNCHANGED launchVars

\* the restart test of configChanged: g_settings against the new snapshot
NeedToRestartServer(newSettings) ==
    g_settings.juliaExePath # newSettings.juliaExePath

\* configChanged(params), subscribed in activate until the subscriptions are disposed
ConfigChanged ==
    /\ activated
    /\ ~torndown
    /\ nConfig < MaxConfigChanges
    /\ \E newSettings \in Settings :
        /\ loaded' = newSettings
        /\ featSettings' = newSettings
        /\ IF NeedToRestartServer(newSettings)
           THEN /\ Len(att) < MaxAttempts
                /\ IF g_languageClient # NullClient
                   THEN /\ client' = [client EXCEPT ![g_languageClient].state =
                                        IF @ = "running" THEN "stopping" ELSE @]
                        /\ SetLanguageClient(NullClient)
                   ELSE UNCHANGED <<client, g_languageClient, broadcasts>>
                /\ StartLanguageServer(g_languageClient)
           ELSE UNCHANGED <<client, g_languageClient, broadcasts, att>>
    /\ nConfig' = nConfig + 1
    /\ UNCHANGED <<activated, torndown, g_settings, status, lastFrame>>
    /\ UNCHANGED launchVars

\* the host deactivates the extension: deactivate() is empty and the host
\* disposes context.subscriptions, that is the status item, the configuration
\* listener and the disposable of every start() that returned so far, which
\* calls stop() on a handle that is still running
Deactivate ==
    /\ activated
    /\ ~torndown
    /\ torndown' = TRUE
    /\ status' = "none"
    /\ client' = [c \in Clients |->
                    IF client[c].state = "running"
                    THEN [client[c] EXCEPT !.state = "stopping"]
                    ELSE client[c]]
    /\ UNCHANGED <<activated, g_settings, loaded, featSettings, nConfig,
                   g_languageClient, broadcasts, att, lastFrame>>
    /\ UNCHANGED launchVars

\* the promise of LanguageClient.stop() settles: the connection is disposed
StopCompleted(c) ==
    /\ client[c].state = "stopping"
    /\ client' = [client EXCEPT ![c].state = "stopped"]
    /\ UNCHANGED <<activated, torndown, g_settings, loaded, featSettings, nConfig,
                   g_languageClient, broadcasts, status, att, lastFrame>>
    /\ UNCHANGED launchVars

\* await packagepath.getPkgPath() resolves: build the arguments and call
\* juliaexepath.getJuliaExePath(), suspending at the second await
PkgResolved(a) ==
    /\ att[a].pc = "awaitPkg"
    /\ att' = [att EXCEPT ![a].pkg = "ok", ![a].exe = "pending", ![a].pc = "awaitExe"]
    /\ UNCHANGED <<activated, torndown, g_settings, loaded, featSettings, nConfig,
                   g_languageClient, broadcasts, status, client, lastFrame>>
    /\ UNCHANGED launchVars

\* a catch that shows the error and calls startLanguageServer() again
PkgRejectedRetries(a) ==
    /\ att[a].pc = "awaitPkg"
    /\ att' = IF Len(att) < MaxAttempts
              THEN Append([att EXCEPT ![a].pkg = "rejected", ![a].errors = @ + 1,
                                      ![a].pc = "failed"], NewAttempt(NullClient))
              ELSE [att EXCEPT ![a].pkg = "rejected", ![a].errors = @ + 1,
                               ![a].pc = "failed"]
    /\ UNCHANGED <<activated, torndown, g_settings, loaded, featSettings, nConfig,
                   g_languageClient, broadcasts, status, client, lastFrame>>
    /\ UNCHANGED launchVars

\* await packagepath.getPkgPath() rejects: the catch shows the error and returns
PkgRejected(a) ==
    /\ att[a].pc = "awaitPkg"
    /\ att' = [att EXCEPT ![a].pkg = "rejected", ![a].errors = @ + 1, ![a].pc = "failed"]
    /\ UNCHANGED <<activated, torndown, g_settings, loaded, featSettings, nConfig,
                   g_languageClient, broadcasts, status, client, lastFrame>>
    /\ UNCHANGED launchVars

\* a rejection of getJuliaExePath() handled by resetting the session reference
ExeRejectedResets(a) ==
    /\ att[a].pc = "awaitExe"
    /\ att' = [att EXCEPT ![a].exe = "rejected", ![a].pc = "rejected"]
    /\ g_languageClient' = NullClient
    /\ broadcasts' = Append(broadcasts, NullClient)
    /\ UNCHANGED <<activated, torndown, g_settings, loaded, featSettings, nConfig,
                   status, client, lastFrame>>
    /\ UNCHANGED launchVars

\* await juliaexepath.getJuliaExePath() rejects outside any try block: the
\* async function's own promise rejects and nothing else runs
ExeRejected(a) ==
    /\ att[a].pc = "awaitExe"
    /\ att' = [att EXCEPT ![a].exe = "rejected", ![a].pc = "rejected"]
    /\ UNCHANGED <<activated, torndown, g_settings, loaded, featSettings, nConfig,
                   g_languageClient, broadcasts, status, client, lastFrame>>
    /\ UNCHANGED launchVars

\* getJuliaExePath() resolves, new LanguageClient, start() returns: the handle
\* is stored, broadcast, and the ready continuation is attached to its onReady()
ExeResolvedStartOk(a) ==
    /\ att[a].pc = "awaitExe"
    /\ LET c == Len(client) + 1 IN
        /\ client' = Append(client, NewClient("running", "pending"))
        /\ SetLanguageClient(c)
        /\ att' = [att EXCEPT ![a].exe = "ok", ![a].client = c, ![a].pc = "done"]
    /\ UNCHANGED <<activated, torndown, g_settings, loaded, featSettings, nConfig,
                   status, lastFrame>>
    /\ UNCHANGED launchVars

\* a catch of the start() failure that shows the error and leaves
\* g_languageClient pointing at the handle that failed to start
ExeResolvedStartThrowsKeeps(a) ==
    /\ att[a].pc = "awaitExe"
    /\ LET c == Len(client) + 1 IN
        /\ client' = Append(client, NewClient("startFailed", "none"))
        /\ g_languageClient' = c
        /\ att' = [att EXCEPT ![a].exe = "ok", ![a].client = c,
                              ![a].errors = @ + 1, ![a].pc = "crashed"]
    /\ UNCHANGED <<activated, torndown, g_settings, loaded, featSettings, nConfig,
                   broadcasts, status, lastFrame>>
    /\ UNCHANGED launchVars

\* getJuliaExePath() resolves, new LanguageClient, start() throws: the catch
\* shows the error and nulls g_languageClient, and g_languageClient.onReady()
\* then throws a TypeError out of the async function
ExeResolvedStartThrows(a) ==
    /\ att[a].pc = "awaitExe"
    /\ LET c == Len(client) + 1 IN
        /\ client' = Append(client, NewClient("startFailed", "none"))
        /\ g_languageClient' = NullClient
        /\ att' = [att EXCEPT ![a].exe = "ok", ![a].client = c,
                              ![a].errors = @ + 1, ![a].pc = "crashed"]
    /\ UNCHANGED <<activated, torndown, g_settings, loaded, featSettings, nConfig,
                   broadcasts, status, lastFrame>>
    /\ UNCHANGED launchVars

\* the connection of a handle is open from start() until stop() has settled
ConnectionOpen(c) == client[c].state \in {"running", "stopping"}

\* onReady() of handle c resolves and the continuation runs: it registers both
\* handlers on whatever g_languageClient is now; on null the first
\* registration throws
ReadyContinuation(c) ==
    /\ client[c].cont = "pending"
    /\ ConnectionOpen(c)
    /\ IF g_languageClient = NullClient
       THEN client' = [client EXCEPT ![c].cont = "threw"]
       ELSE IF g_languageClient = c
            THEN client' = [client EXCEPT ![c].cont = "ran",
                                          ![c].busyReg = @ + 1, ![c].readyReg = @ + 1]
            ELSE client' = [client EXCEPT ![c].cont = "ran",
                                          ![g_languageClient].busyReg = @ + 1,
                                          ![g_languageClient].readyReg = @ + 1]
    /\ UNCHANGED <<activated, torndown, g_settings, loaded, featSettings, nConfig,
                   g_languageClient, broadcasts, status, att, lastFrame>>
    /\ UNCHANGED launchVars

\* onReady() of handle c rejects: .then has no rejection handler
HandshakeFailed(c) ==
    /\ client[c].cont = "pending"
    /\ ConnectionOpen(c)
    /\ client' = [client EXCEPT ![c].cont = "rejected"]
    /\ UNCHANGED <<activated, torndown, g_settings, loaded, featSettings, nConfig,
                   g_languageClient, broadcasts, status, att, lastFrame>>
    /\ UNCHANGED launchVars

\* both handlers calling g_serverstatus.show()
HandlerEffectAlwaysShow(kind) == "busy"

\* the body of a notification handler: g_serverstatus.show() / .hide()
HandlerEffect(kind) == IF kind = "busy" THEN "busy" ELSE "ready"

\* is a handler for this notification type registered on handle c
Registered(c, kind) ==
    IF kind = "busy" THEN client[c].busyReg > 0 ELSE client[c].readyReg > 0

\* handle c receives a window/setStatusBusy or window/setStatusReady frame and
\* dispatches it to the handler registered on c for that type; a frame with no
\* handler registered is dropped by the connection and changes nothing, and
\* show() and hide() leave a disposed status item as it is
Notify(c, kind) ==
    /\ ConnectionOpen(c)
    /\ Registered(c, kind)
    /\ status' = IF torndown THEN status ELSE HandlerEffect(kind)
    /\ lastFrame' = [client |-> c, kind |-> kind]
    /\ UNCHANGED <<activated, torndown, g_settings, loaded, featSettings, nConfig,
                   g_languageClient, broadcasts, client, att>>
    /\ UNCHANGED launchVars

Next ==
    \/ Activate
    \/ ConfigChanged
    \/ \E c \in Clients : StopCompleted(c)
    \/ \E a \in Attempts : PkgResolved(a)
    \/ \E a \in Attempts : PkgRejected(a)
    \/ \E a \in Attempts : ExeRejected(a)
    \/ \E a \in Attempts : ExeResolvedStartOk(a)
    \/ \E a \in Attempts : ExeResolvedStartThrows(a)
    \/ \E c \in Clients : ReadyContinuation(c)
    \/ \E c \in Clients : HandshakeFailed(c)
    \/ \E c \in Clients, kind \in Kinds : Notify(c, kind)

\* ---- the launch specification --------------------------------------------
\* Number.prototype.toString(): the decimal digits of a non-negative integer
RECURSIVE PidToString(_)
PidToString(n) == IF n < 10 THEN <<n>> ELSE Append(PidToString(n \div 10), n % 10)

\* an argument list with the workspace path and the entry script exchanged
ServerArgsSwapped(originalJuliaPkgDir, debug, pid) ==
    <<"--startup-file=no", "--history-file=no", originalJuliaPkgDir, "main.jl",
      IF debug THEN "--debug=yes" ELSE "--debug=no", PidToString(pid)>>

\* serverArgsRun (debug = FALSE) and serverArgsDebug (debug = TRUE)
ServerArgs(originalJuliaPkgDir, debug, pid) ==
    <<"--startup-file=no", "--history-file=no", "main.jl", originalJuliaPkgDir,
      IF debug THEN "--debug=yes" ELSE "--debug=no", PidToString(pid)>>

\* process.env.HOME ? process.env.HOME : os.homedir(): an unset variable and
\* the empty string are both falsy
HomeEnv(home) == IF home # Undefined /\ home # "" THEN home ELSE OsHomedir

\* spawnOptions
SpawnOptions(home) ==
    [cwd |-> "scripts/languageserver",
     env |-> [JULIA_PKGDIR |-> "scripts/languageserver/julia_pkgdir",
              HOME |-> HomeEnv(home)]]

NoOptions == [command |-> "none", args |-> <<>>, options |-> "none"]

\* the initial states when the launch specification is derived: any host
InitLaunch ==
    /\ activated = FALSE
    /\ torndown = FALSE
    /\ g_settings = NoSettings
    /\ loaded = NoSettings
    /\ featSettings = NoSettings
    /\ nConfig = 0
    /\ g_languageClient = NullClient
    /\ broadcasts = <<>>
    /\ status = "none"
    /\ client = <<>>
    /\ att = <<>>
    /\ lastFrame = [client |-> NullClient, kind |-> "none"]
    /\ host \in [home : HomeValues, pid : Pids]
    /\ calls = <<>>

\* a call of startLanguageServer(): suspended at await getPkgPath()
LaunchCall ==
    /\ Len(calls) < MaxLaunches
    /\ calls' = Append(calls, [pc |-> "awaitPkg", originalJuliaPkgDir |-> "none",
                               serverArgsRun |-> <<>>, serverArgsDebug |-> <<>>,
                               spawnOptions |-> "none",
                               run |-> NoOptions, debug |-> NoOptions])
    /\ UNCHANGED <<mainVars, host>>

\* getPkgPath() resolves to dir: both argument lists and spawnOptions are built
LaunchPkgResolved(k, dir) ==
    /\ calls[k].pc = "awaitPkg"
    /\ calls' = [calls EXCEPT ![k].pc = "awaitExe",
                              ![k].originalJuliaPkgDir = dir,
                              ![k].serverArgsRun = ServerArgs(dir, FALSE, host.pid),
                              ![k].serverArgsDebug = ServerArgs(dir, TRUE, host.pid),
                              ![k].spawnOptions = SpawnOptions(host.home)]
    /\ UNCHANGED <<mainVars, host>>

\* getJuliaExePath() resolves to jlexepath: serverOptions is built and handed
\* to new LanguageClient
LaunchExeResolved(k, jlexepath) ==
    /\ calls[k].pc = "awaitExe"
    /\ calls' = [calls EXCEPT ![k].pc = "launched",
                              ![k].run = [command |-> jlexepath,
                                          args |-> calls[k].serverArgsRun,
                                          options |-> calls[k].spawnOptions],
                              ![k].debug = [command |-> jlexepath,
                                            args |-> calls[k].serverArgsDebug,
                                            options |-> calls[k].spawnOptions]]
    /\ UNCHANGED <<mainVars, host>>

NextLaunch ==
    \/ LaunchCall
    \/ \E k \in DOMAIN calls, dir \in PkgDirs : LaunchPkgResolved(k, dir)
    \/ \E k \in DOMAIN calls, jlexepath \in ExePaths : LaunchExeResolved(k, jlexepath)

SpecLaunch == InitLaunch /\ [][NextLaunch]_vars

\* the extension while it is active
Spec == Init /\ [][Next]_vars

\* the whole life of the extension, the host's deactivation included
NextTeardown ==
    \/ Next
    \/ Deactivate

SpecTeardown == Init /\ [][NextTeardown]_vars

\* ---- observations used by the properties --------------------------------
\* how often handle c was broadcast to the feature modules
BroadcastCount(c) == Cardinality({i \in DOMAIN broadcasts : broadcasts[i] = c})

\* handles whose start() returned and on which stop() has not been called
LiveHandles == {c \in Clients : client[c].state = "running"}

\* an attempt one of whose resolver futures rejected
ResolverRejected(r) == r.pkg = "rejected" \/ r.exe = "rejected"

\* this step is the turn in which attempt a runs new LanguageClient
Constructs(a) == att[a].client = NullClient /\ att'[a].client # NullClient

\* this step dispatches a notification frame
FrameStep == lastFrame' # lastFrame

\* handle c was the current session once and is not any more
Superseded(c) == BroadcastCount(c) > 0 /\ g_languageClient # c

\* ---- C1 -----------------------------------------------------------------
\* C1: the number of live session handles never exceeds 1 (a handle counts
\* as live from its successful start() until stop() is called on it)
C1_SingleActiveSession == Cardinality(LiveHandles) <= 1

\* ---- C2 -----------------------------------------------------------------
\* C2: when a restart stopped the current handle, that handle's stop has
\* completed by the time the restart's attempt runs new LanguageClient
C2_StopBeforeStart ==
    [][\A a \in Attempts :
          (Constructs(a) /\ att[a].stopped # NullClient)
              => client[att[a].stopped].state = "stopped"]_vars

\* ---- C3 -----------------------------------------------------------------
\* C3: a configuration change whose executable path equals the one of the
\* previously loaded snapshot stops no session and starts no attempt, and the
\* new snapshot is still forwarded to the feature modules
C3_NarrowRestartTrigger ==
    [][(/\ nConfig' = nConfig + 1
        /\ loaded'.juliaExePath = loaded.juliaExePath
        /\ loaded'.other # loaded.other)
          => /\ att' = att
             /\ client' = client
             /\ g_languageClient' = g_languageClient
             /\ broadcasts' = broadcasts
             /\ featSettings' = loaded']_vars

\* ---- C4 -----------------------------------------------------------------
\* C4: a busy or ready frame of a superseded session leaves the status
\* display unchanged and delivers nothing to the feature modules
C4_StaleNotificationSuppressed ==
    [][(FrameStep /\ Superseded(lastFrame'.client))
          => /\ status' = status
             /\ broadcasts' = broadcasts
             /\ featSettings' = featSettings]_vars

\* ---- C5 -----------------------------------------------------------------
\* C5: a handle constructed by an attempt that a newer start request has
\* superseded is not installed as current, not broadcast and not left running
C5_SupersededStartDiscarded ==
    [][\A a \in Attempts :
          (Constructs(a) /\ a < Len(att))
              => /\ g_languageClient' # att'[a].client
                 /\ broadcasts' = broadcasts
                 /\ client'[att'[a].client].state # "running"]_vars

\* ---- C6 -----------------------------------------------------------------
\* C6: an attempt in which either resolver rejected has produced exactly one
\* error message
C6_ResolutionFailureReportedOnce ==
    \A a \in Attempts : ResolverRejected(att[a]) => att[a].errors = 1

\* ---- C7 -----------------------------------------------------------------
\* C7: an attempt resolves the workspace path, then the executable path, then
\* constructs its handle; an attempt with a rejected resolver constructs no
\* handle, takes no further step, and its rejection leaves the current
\* session, the handles and the feature modules' reference as they were
C7_ResolutionFailureNeverLaunches ==
    [][\A a \in Attempts :
          /\ (att'[a].pc = "awaitExe" /\ att[a].pc # "awaitExe")
                => (att[a].pc = "awaitPkg" /\ att'[a].pkg = "ok")
          /\ Constructs(a)
                => (att[a].pc = "awaitExe" /\ att[a].pkg = "ok" /\ att'[a].exe = "ok")
          /\ ResolverRejected(att'[a]) => att'[a].client = NullClient
          /\ ResolverRejected(att[a]) => att'[a] = att[a]
          /\ (ResolverRejected(att'[a]) /\ ~ResolverRejected(att[a]))
                => /\ g_languageClient' = g_languageClient
                   /\ broadcasts' = broadcasts
                   /\ client' = client]_vars

\* an attempt was rejected by the executable resolver and another by the
\* workspace resolver while a session is current
C7_Witness ==
    /\ g_languageClient # NullClient
    /\ FeatClient = g_languageClient
    /\ \E a, b \in Attempts : att[a].exe = "rejected" /\ att[b].pkg = "rejected"

\* ---- C8 -----------------------------------------------------------------
\* C8: a current session whose handshake has completed has both handlers
\* registered on it, and right after each of its frames is processed the
\* status display reads the kind of that frame
C8_HandshakeThenToggle ==
    [][/\ (g_languageClient' # NullClient /\ client'[g_languageClient'].cont = "ran")
            => /\ client'[g_languageClient'].busyReg > 0
               /\ client'[g_languageClient'].readyReg > 0
       /\ (/\ FrameStep
           /\ lastFrame'.client = g_languageClient
           /\ client[lastFrame'.client].cont = "ran")
            => status' = lastFrame'.kind]_vars

\* the current session, its handshake completed, has sent a ready frame and
\* the display reads Ready
C8_Witness ==
    /\ g_languageClient # NullClient
    /\ lastFrame = [client |-> g_languageClient, kind |-> "ready"]
    /\ client[g_languageClient].cont = "ran"
    /\ status = "ready"

\* ---- C9 -----------------------------------------------------------------
\* C9: every handle whose start() returned has been broadcast exactly once,
\* and a handle that has a handler registered or has had a notification
\* processed was broadcast before
C9_BroadcastOnceBeforeNotifications ==
    \A c \in Clients :
        /\ client[c].state # "startFailed" => BroadcastCount(c) = 1
        /\ (\E kind \in Kinds : Registered(c, kind)) => BroadcastCount(c) = 1
        /\ lastFrame.client = c => BroadcastCount(c) = 1

\* a launched handle has had a notification processed
C9_Witness ==
    /\ lastFrame.client # NullClient
    /\ BroadcastCount(lastFrame.client) = 1
    /\ status = lastFrame.kind

\* ---- C10 ----------------------------------------------------------------
\* C10: in the sequence of broadcasts a non-null handle is always followed by
\* null, never directly by another non-null handle
C10_NoTwoCurrentHandles ==
    \A i \in DOMAIN broadcasts :
        (i < Len(broadcasts) /\ broadcasts[i] # NullClient)
            => broadcasts[i + 1] = NullClient

\* ---- C11 ----------------------------------------------------------------
\* C11: a configuration change whose executable path differs from the one of
\* the previously loaded snapshot stops the current session, if any, and
\* begins a new start attempt
C11_RestartOnEveryQualifyingChange ==
    [][(/\ nConfig' = nConfig + 1
        /\ loaded'.juliaExePath # loaded.juliaExePath)
          => /\ Len(att') = Len(att) + 1
             /\ g_languageClient' = NullClient
             /\ g_languageClient # NullClient
                   => client'[g_languageClient].state # "running"]_vars

\* ---- C12 ----------------------------------------------------------------
\* the attempt that constructed handle c
Creator(c) == CHOOSE a \in Attempts : att[a].client = c

\* an attempt that has ended, with a failure or with a started handle
Ended(r) == r.pc \in {"failed", "rejected", "crashed", "done"}

\* C12: a start attempt begins only in activate or in a configuration change
\* that asks for a restart, an attempt that has ended takes no further step,
\* a handle is only constructed by an attempt waiting for the executable
\* path, and there are never more attempts than start requests
C12_NoAutomaticRetry ==
    [][/\ Len(att') > Len(att)
            => /\ Len(att') = Len(att) + 1
               /\ \/ ~activated /\ activated'
                  \/ /\ nConfig' = nConfig + 1
                     /\ g_settings.juliaExePath # loaded'.juliaExePath
       /\ \A a \in Attempts : Ended(att[a]) => att'[a] = att[a]
       /\ Len(client') > Len(client)
            => /\ Len(client') = Len(client) + 1
               /\ \E a \in Attempts : Constructs(a) /\ att[a].pc = "awaitExe"
       /\ Len(att') <= (IF activated' THEN 1 ELSE 0) + nConfig']_vars

\* one attempt failed at the resolver, one at start() and one at the handshake
C12_Witness ==
    /\ \E a \in Attempts : att[a].pc = "failed"
    /\ \E a \in Attempts : att[a].pc = "crashed"
    /\ \E c \in Clients : client[c].cont = "rejected"
    /\ \A a \in Attempts : Ended(att[a])

\* ---- C13 ----------------------------------------------------------------
\* C13: the turn in which start() throws shows one error message, leaves
\* g_languageClient null and broadcasts nothing, and the handle that failed
\* to start is never broadcast
C13_SpawnFailureLeavesIdle ==
    [][\A a \in Attempts :
          /\ (att'[a].pc = "crashed" /\ att[a].pc # "crashed")
                => /\ att'[a].errors = 1
                   /\ g_languageClient' = NullClient
                   /\ broadcasts' = broadcasts
                   /\ client'[att'[a].client].state = "startFailed"
          /\ att'[a].pc = "crashed"
                => /\ att'[a].errors = 1
                   /\ \A i \in DOMAIN broadcasts' : broadcasts'[i] # att'[a].client]_vars

\* start() has thrown in an attempt and a later attempt has installed a session
C13_Witness ==
    \E a, b \in Attempts :
        /\ a < b
        /\ att[a].pc = "crashed"
        /\ att[b].pc = "done"
        /\ g_languageClient = att[b].client
        /\ BroadcastCount(att[a].client) = 0

\* ---- C14 ----------------------------------------------------------------
\* C14: a handle whose handshake failed has had exactly one error message
\* shown for its attempt and is neither the current session nor the feature
\* modules' session reference
C14_HandshakeFailureLeavesIdle ==
    \A c \in Clients :
        client[c].cont = "rejected"
            => /\ att[Creator(c)].errors = 1
               /\ g_languageClient # c
               /\ FeatClient # c

\* ---- C15 ----------------------------------------------------------------
\* the six arguments the claim names, for a workspace path and a mode
ClaimedArgs(k, debugFlag) ==
    /\ Len(k) = 6
    /\ k[1] = "--startup-file=no"
    /\ k[2] = "--history-file=no"
    /\ k[3] = "main.jl"
    /\ k[5] = debugFlag
    /\ k[6] = PidToString(host.pid)

\* the run and debug argument lists of every call that reached the launcher
ClaimedArgShape ==
    \A k \in DOMAIN calls :
        calls[k].pc = "launched"
            => /\ ClaimedArgs(calls[k].run.args, "--debug=no")
               /\ ClaimedArgs(calls[k].debug.args, "--debug=yes")
               /\ calls[k].run.args[4] = calls[k].originalJuliaPkgDir
               /\ calls[k].debug.args[4] = calls[k].originalJuliaPkgDir
               /\ \A i \in 1..6 : i # 5 => calls[k].run.args[i] = calls[k].debug.args[i]

\* C15: every call that reaches the launcher passes the six arguments in
\* order, with the workspace path of the same call, the two modes differing
\* in the fifth only, and HOME is the ambient HOME when it is set and the OS
\* home directory otherwise
C15_LaunchArgumentShape ==
    /\ ClaimedArgShape
    /\ \A k \in DOMAIN calls :
          calls[k].pc = "launched"
              => calls[k].run.options.env.HOME =
                    IF host.home # Undefined THEN host.home ELSE OsHomedir

\* C15 as amended: the same, with HOME the ambient HOME when it is set and
\* not empty, and the OS home directory otherwise
C15_LaunchArgumentShapeNonEmptyHome ==
    /\ ClaimedArgShape
    /\ \A k \in DOMAIN calls :
          calls[k].pc = "launched"
              => /\ calls[k].run.options.env.HOME =
                       IF host.home \notin {Undefined, ""} THEN host.home ELSE OsHomedir
                 /\ calls[k].debug.options = calls[k].run.options

\* two calls with different workspace paths have reached the launcher on a
\* host whose HOME is set and empty
C15_Witness ==
    /\ host.home = ""
    /\ \E k, m \in DOMAIN calls :
          /\ calls[k].pc = "launched"
          /\ calls[m].pc = "launched"
          /\ calls[k].originalJuliaPkgDir # calls[m].originalJuliaPkgDir
          /\ calls[k].run.options.env.HOME = OsHomedir

\* ---- C16 ----------------------------------------------------------------
\* C16: once the subscriptions have been disposed, stop() has been called on
\* every handle that was started, also on one constructed afterwards by a
\* start attempt that was suspended at an await during the teardown
C16_TeardownClosesEverySession ==
    torndown => \A c \in Clients : client[c].state # "running"

\* ---- C17 ----------------------------------------------------------------
\* C17: a handle whose ready continuation has run has each handler registered
\* on it exactly once, and no other handle has a handler registered
C17_HandlersBoundToReadySession ==
    \A c \in Clients :
        IF client[c].cont \in {"ran", "threw"}
        THEN client[c].busyReg = 1 /\ client[c].readyReg = 1
        ELSE client[c].busyReg = 0 /\ client[c].readyReg = 0

\* ---- C18 ----------------------------------------------------------------
\* C18: g_languageClient is never null where it is dereferenced: no call of
\* startLanguageServer ends with the TypeError of the onReady() call and no
\* ready continuation ends with the TypeError of the first onNotification call
C18_NoNullDereference ==
    /\ \A a \in Attempts : att[a].pc # "crashed"
    /\ \A c \in Clients : client[c].cont # "threw"

\* ---- C19 ----------------------------------------------------------------
\* C19: between turns the session reference last broadcast to the feature
\* modules equals g_languageClient
C19_FeatureModulesInSync == FeatClient = g_languageClient

\* ---- C20 ----------------------------------------------------------------
\* C20: the display reads Ready only while a session whose handshake has
\* completed is current, and once activated it reads Busy unless the frame
\* processed last is the current session's ready notification
C20_ReadyOnlyWhileCurrentReady ==
    /\ status = "ready"
          => /\ g_languageClient # NullClient
             /\ client[g_languageClient].cont = "ran"
    /\ (activated /\ lastFrame # [client |-> g_languageClient, kind |-> "ready"])
          => status = "busy"

\* C20 as amended: once activated the display reads Ready exactly when the
\* notification processed last, of whichever session, is a ready
\* notification, which needs a ready continuation to have run; until the
\* first such notification it reads Busy
C20_ReadyOnlyAfterReadyFrame ==
    activated
        => /\ status = "ready" <=> lastFrame.kind = "ready"
           /\ status = "busy" <=> lastFrame.kind \in {"none", "busy"}
           /\ status = "ready" => \E c \in Clients : client[c].cont = "ran"

\* the display reads Ready after a restart has stopped the session that sent
\* the ready notification and no session is current
C20_Witness ==
    /\ status = "ready"
    /\ g_languageClient = NullClient
    /\ lastFrame.kind = "ready"
    /\ client[lastFrame.client].state \in {"stopping", "stopped"}

====
